---- MODULE Spec2Model ----
(***************************************************************************)
(* Model of incapsula/client_subaccount.go: the subaccount client's three  *)
(* operations AddSubAccount, GetSubAccount (with its page fetch            *)
(* sendListSubAccountsRequest) and DeleteSubAccount.                       *)
(*                                                                         *)
(* The remote service is the environment.  Under Spec it answers each      *)
(* request with any response at all (transport failure, malformed body,    *)
(* any result code, any page).  Under SpecFaithful it serves a fixed       *)
(* listing in pages; under SpecConcurrent other callers change that        *)
(* listing between the page fetches of a GetSubAccount call.               *)
(***************************************************************************)
EXTENDS Integers, Sequences, FiniteSets, TLC

VARIABLES
    op,           \* operation of the current call: "none", "add", "get", "delete"
    pc,           \* "idle", "loop" (inside GetSubAccount's for loop), "returned"
                  \* (the call has returned retVal, retErr to its caller)
    args,         \* arguments of the current call
    count,        \* GetSubAccount: var count
    shouldFetch,  \* GetSubAccount: var shouldFetch
    requests,     \* HTTP requests the current call has issued, in order
    lastResp,     \* Nil, or <<response>> to the last request of the current call
    history,      \* GetSubAccount: what each page fetch of the call was answered
    retVal,       \* returned pointer: Nil or <<value>>
    retErr,       \* returned error: Nil or <<text>>
    listing,      \* the parent's subaccounts on the remote service, in list order
    present       \* the target was in the listing when the call began and since

vars == <<op, pc, args, count, shouldFetch, requests, lastResp, history,
          retVal, retErr, listing, present>>

----------------------------------------------------------------------------
(* Constants of the source and bounds of the model *)

PAGE_SIZE == 50
endpointSubAccountAdd == "subaccounts/add"
endpointSubAccountList == "accounts/listSubAccounts"
endpointSubAccountDelete == "subaccounts/delete"

\* GetSubAccount's page counter is unbounded in the code; the model stops
\* issuing page fetches at page_num = MaxPages.
MaxPages == 3

\* A nil pointer / nil error, and a non-nil one.
Nil == <<>>
Some(x) == <<x>>

----------------------------------------------------------------------------
(* fmt.Sprint / strconv.Itoa on an int: the decimal digits, as a sequence  *)
(* of characters, with a leading "-" for negatives.                        *)

Digits == <<"0", "1", "2", "3", "4", "5", "6", "7", "8", "9">>

RECURSIVE ItoaNat(_)
ItoaNat(n) ==
    IF n < 10 THEN <<Digits[n + 1]>>
    ELSE Append(ItoaNat(n \div 10), Digits[(n % 10) + 1])

Itoa(n) == IF n < 0 THEN <<"-">> \o ItoaNat(0 - n) ELSE ItoaNat(n)

SprintInt(n) == Itoa(n)

\* fmt.Sprint on a string is the string.
SprintStr(s) == s

----------------------------------------------------------------------------
(* Error texts.  fmt.Errorf's result is kept as the sequence of its pieces: *)
(* the literal parts of the format and one piece per verb.                 *)

Lit(s) == [k |-> "lit", v |-> Some(s)]
StrArg(s) == [k |-> "str", v |-> Some(s)]
IntArg(n) == [k |-> "int", v |-> SprintInt(n)]
BodyArg(b) == [k |-> "body", v |-> Some(b)]
ErrArg(e) == [k |-> "err", v |-> e]

----------------------------------------------------------------------------
(* Data model *)

\* type SubAccount: the ID plus the embedded payload's name.
SubAccount(id, name) == [SubAccountID |-> id, SubAccountName |-> name]
ZeroSubAccount == SubAccount(0, "")

\* type SubAccountPayload
SubAccountPayload(name, refID, logLevel, parentID, logsAccountID) ==
    [SubAccountName |-> name, RefID |-> refID, LogLevel |-> logLevel,
     ParentID |-> parentID, LogsAccountID |-> logsAccountID]

----------------------------------------------------------------------------
(* Response bodies and json.Unmarshal.                                     *)
(* A body is either not JSON at all (wellFormed = FALSE) or a JSON object  *)
(* in which each key the client knows is absent, present with a value of   *)
(* the expected type ("ok"), or present with a value of another type       *)
(* ("bad").  Keys the client does not know are ignored by the decoder and  *)
(* are not modelled.                                                       *)

JsonKeys == {"res", "res_message", "resultList", "sub_account"}

Body(wf, kres, res, kmsg, msg, klist, list, ksub, sub) ==
    [wellFormed |-> wf,
     kind |-> [k \in JsonKeys |->
                 CASE k = "res" -> kres
                   [] k = "res_message" -> kmsg
                   [] k = "resultList" -> klist
                   [] k = "sub_account" -> ksub],
     res |-> res, res_message |-> msg, resultList |-> list, sub_account |-> sub]

\* The keys each response struct declares.
SubAccountAddResponseKeys == {"sub_account", "res"}
SubAccountListResponseKeys == {"resultList", "res"}
SubAccountDeleteResponseKeys == {"res", "res_message"}

JsonSyntaxError == <<Lit("invalid character looking for beginning of value")>>
JsonTypeError == <<Lit("json: cannot unmarshal value into Go struct field")>>

\* json.Unmarshal's error for a body decoded into a struct with these keys.
UnmarshalErr(body, keys) ==
    IF ~body.wellFormed THEN Some(JsonSyntaxError)
    ELSE IF \E k \in keys : body.kind[k] = "bad" THEN Some(JsonTypeError)
    ELSE Nil

\* The decoded fields: an absent key leaves the field's zero value.
DecodedRes(body) == IF body.kind["res"] = "ok" THEN body.res ELSE 0
DecodedSubAccounts(body) ==
    IF body.kind["resultList"] = "ok" THEN body.resultList ELSE <<>>
DecodedSubAccount(body) ==
    IF body.kind["sub_account"] = "ok" THEN body.sub_account ELSE ZeroSubAccount

\* What PostFormWithHeaders hands back: an error, or a response with a body.
TransportError == <<Lit("dial tcp: connection refused")>>
ZeroBody == Body(FALSE, "absent", 0, "absent", "", "absent", <<>>, "absent", ZeroSubAccount)
Failed == [ok |-> FALSE, err |-> TransportError, body |-> ZeroBody]
Answered(body) == [ok |-> TRUE, err |-> Nil, body |-> body]

Request(endpoint, values) == [endpoint |-> endpoint, values |-> values]
Result(val, err) == [val |-> val, err |-> err]

----------------------------------------------------------------------------
(* AddSubAccount *)

\* Variant: logs_account_id is sent whether or not it is zero.
AddValues_AlwaysLogsAccount(p) ==
    LET keys == {"sub_account_name", "logs_account_id"}
                \cup (IF p.RefID # "" THEN {"ref_id"} ELSE {})
                \cup (IF p.ParentID # 0 THEN {"parent_id"} ELSE {})
                \cup (IF p.LogLevel # "" THEN {"log_level"} ELSE {})
    IN [k \in keys |->
          CASE k = "sub_account_name" -> <<p.SubAccountName>>
            [] k = "ref_id" -> <<SprintStr(p.RefID)>>
            [] k = "parent_id" -> <<SprintInt(p.ParentID)>>
            [] k = "logs_account_id" -> <<SprintInt(p.LogsAccountID)>>
            [] k = "log_level" -> <<SprintStr(p.LogLevel)>>]

\* The form body: url.Values built from the payload.
AddValues(p) ==
    LET keys == {"sub_account_name"}
                \cup (IF p.RefID # "" THEN {"ref_id"} ELSE {})
                \cup (IF p.ParentID # 0 THEN {"parent_id"} ELSE {})
                \cup (IF p.LogsAccountID # 0 THEN {"logs_account_id"} ELSE {})
                \cup (IF p.LogLevel # "" THEN {"log_level"} ELSE {})
    IN [k \in keys |->
          CASE k = "sub_account_name" -> <<p.SubAccountName>>
            [] k = "ref_id" -> <<SprintStr(p.RefID)>>
            [] k = "parent_id" -> <<SprintInt(p.ParentID)>>
            [] k = "logs_account_id" -> <<SprintInt(p.LogsAccountID)>>
            [] k = "log_level" -> <<SprintStr(p.LogLevel)>>]

\* What AddSubAccount returns on the response to its request.
AddSubAccountReturn(p, resp) ==
    IF ~resp.ok
    THEN Result(Nil, Some(<<Lit("Error adding subaccount "),
                            StrArg(p.SubAccountName), Lit(": "),
                            ErrArg(resp.err)>>))
    ELSE LET err == UnmarshalErr(resp.body, SubAccountAddResponseKeys) IN
         IF err # Nil
         THEN Result(Nil, Some(<<Lit("Error parsing add subaccount JSON response for subaccount "),
                                 StrArg(p.SubAccountName), Lit(": "),
                                 ErrArg(err[1])>>))
         ELSE IF DecodedRes(resp.body) # 0
         THEN Result(Nil, Some(<<Lit("Error from Incapsula service when adding subaccount "),
                                 StrArg(p.SubAccountName), Lit(": "),
                                 BodyArg(resp.body)>>))
         ELSE Result(Some([SubAccount |-> DecodedSubAccount(resp.body),
                           Res |-> DecodedRes(resp.body)]), Nil)

----------------------------------------------------------------------------
(* sendListSubAccountsRequest and GetSubAccount *)

ListValues(accountId, pageNum) ==
    LET keys == (IF accountId # 0 THEN {"account_id"} ELSE {})
                \cup {"page_num", "page_size"}
    IN [k \in keys |->
          CASE k = "account_id" -> <<SprintInt(accountId)>>
            [] k = "page_num" -> <<SprintInt(pageNum)>>
            [] k = "page_size" -> <<SprintInt(PAGE_SIZE)>>]

\* Variant: a body that does not decode is taken for an empty page.
SendListSubAccountsRequestReturn_SwallowDecode(accountId, pageNum, resp) ==
    IF ~resp.ok
    THEN Result(<<>>, Some(<<Lit("Error getting subaccounts for account "),
                             IntArg(accountId), Lit(": "), ErrArg(resp.err)>>))
    ELSE IF UnmarshalErr(resp.body, SubAccountListResponseKeys) # Nil
    THEN Result(<<>>, Nil)
    ELSE Result(DecodedSubAccounts(resp.body), Nil)

\* Variant: the parse error is worded as AddSubAccount's, without the body.
SendListSubAccountsRequestReturn_NoBody(accountId, pageNum, resp) ==
    IF ~resp.ok
    THEN Result(<<>>, Some(<<Lit("Error getting subaccounts for account "),
                             IntArg(accountId), Lit(": "), ErrArg(resp.err)>>))
    ELSE LET err == UnmarshalErr(resp.body, SubAccountListResponseKeys) IN
         IF err # Nil
         THEN Result(<<>>, Some(<<Lit("Error parsing subaccounts list JSON response for accountid: "),
                                  IntArg(accountId), Lit(" "), ErrArg(err[1])>>))
         ELSE Result(DecodedSubAccounts(resp.body), Nil)

\* What sendListSubAccountsRequest returns on the response to its request:
\* val is the slice of subaccounts (not a pointer).
SendListSubAccountsRequestReturn(accountId, pageNum, resp) ==
    IF ~resp.ok
    THEN Result(<<>>, Some(<<Lit("Error getting subaccounts for account "),
                             IntArg(accountId), Lit(": "), ErrArg(resp.err)>>))
    ELSE LET err == UnmarshalErr(resp.body, SubAccountListResponseKeys) IN
         IF err # Nil
         THEN Result(<<>>, Some(<<Lit("Error parsing subaccounts list JSON response for accountid: "),
                                  IntArg(accountId), Lit(" "), ErrArg(err[1]),
                                  Lit("\nresponse: "), BodyArg(resp.body)>>))
         ELSE Result(DecodedSubAccounts(resp.body), Nil)

\* Variant: the range loop does not stop at a match, the last one wins.
RECURSIVE FindSubAccount_Last(_, _)
FindSubAccount_Last(subAccounts, subAccountID) ==
    IF subAccounts = <<>> THEN Nil
    ELSE IF subAccounts[Len(subAccounts)].SubAccountID = subAccountID
    THEN Some(subAccounts[Len(subAccounts)])
    ELSE FindSubAccount_Last(SubSeq(subAccounts, 1, Len(subAccounts) - 1), subAccountID)

\* The range loop over a page: a pointer to the first entry with the ID.
RECURSIVE FindSubAccount(_, _)
FindSubAccount(subAccounts, subAccountID) ==
    IF subAccounts = <<>> THEN Nil
    ELSE IF Head(subAccounts).SubAccountID = subAccountID
    THEN Some(Head(subAccounts))
    ELSE FindSubAccount(Tail(subAccounts), subAccountID)

\* Variant: the scan goes on until an empty page.
ShouldFetch_NonEmpty(subAccounts) == Len(subAccounts) # 0

\* shouldFetch = len(subAccounts) == PAGE_SIZE
ShouldFetch(subAccounts) == Len(subAccounts) = PAGE_SIZE

\* Variant: count += 2
NextPage_Skip(pageNum) == pageNum + 2

\* count += 1
NextPage(pageNum) == pageNum + 1

----------------------------------------------------------------------------
(* DeleteSubAccount *)

DeleteValues(subAccountID) ==
    [k \in {"sub_account_id"} |-> <<Itoa(subAccountID)>>]

\* Variant: the result code is not looked at, as in the list page fetch.
DeleteSubAccountReturn_IgnoreRes(subAccountID, resp) ==
    IF ~resp.ok
    THEN Some(<<Lit("Error deleting subaccount id: "), IntArg(subAccountID),
                Lit(": "), ErrArg(resp.err)>>)
    ELSE LET err == UnmarshalErr(resp.body, SubAccountDeleteResponseKeys) IN
         IF err # Nil
         THEN Some(<<Lit("Error parsing delete account JSON response for subaccount id: "),
                     IntArg(subAccountID), Lit(": "), ErrArg(err[1])>>)
         ELSE Nil

\* The error DeleteSubAccount returns on the response to its request.
DeleteSubAccountReturn(subAccountID, resp) ==
    IF ~resp.ok
    THEN Some(<<Lit("Error deleting subaccount id: "), IntArg(subAccountID),
                Lit(": "), ErrArg(resp.err)>>)
    ELSE LET err == UnmarshalErr(resp.body, SubAccountDeleteResponseKeys) IN
         IF err # Nil
         THEN Some(<<Lit("Error parsing delete account JSON response for subaccount id: "),
                     IntArg(subAccountID), Lit(": "), ErrArg(err[1])>>)
         ELSE IF DecodedRes(resp.body) # 0
         THEN Some(<<Lit("Error from Incapsula service when deleting subaccount id: "),
                     IntArg(subAccountID), Lit(": "), BodyArg(resp.body)>>)
         ELSE Nil

----------------------------------------------------------------------------
(* Inputs: the payloads, IDs and responses the calls are tried on *)

Payloads ==
    {SubAccountPayload(n, r, l, p, a) :
        n \in {"acme"}, r \in {"", "ref-1"}, l \in {"", "full"},
        p \in {0, 7, -12}, a \in {0, 305}}

ParentIDs == {0, 7}
TargetIDs == {1, 2}
DeleteIDs == {0, 1, 120}

Kinds == {"absent", "ok", "bad"}
ResCodes == {0, 1, -3}

\* A page of len entries: filler entries with IDs of their own (101, 102, ...),
\* and the entries at the positions in hits carrying id, each with its own name.
FillerID(i) == 100 + i
HitName(hits, i) == IF hits[1] = i THEN "first" ELSE "later"
MkPage(len, hits, id) ==
    [i \in 1..len |->
        IF \E j \in 1..Len(hits) : hits[j] = i
        THEN SubAccount(id, HitName(hits, i))
        ELSE SubAccount(FillerID(i), "filler")]

PageLens == {0, 3, PAGE_SIZE - 1, PAGE_SIZE, PAGE_SIZE + 1}
HitLists == {<<>>, <<2, 3>>, <<11>>, <<11, 30>>, <<PAGE_SIZE>>}
HitsWithin(len) == {h \in HitLists : \A j \in 1..Len(h) : h[j] <= len}
Pages ==
    UNION {{MkPage(len, hits, id) : hits \in HitsWithin(len), id \in TargetIDs} :
             len \in PageLens}

Malformed == Body(FALSE, "absent", 0, "absent", "", "absent", <<>>, "absent", ZeroSubAccount)

\* The result code of a JSON body: absent, of the wrong type, or a number.
ResFields == {<<"absent", 0>>, <<"bad", 0>>} \cup {<<"ok", c>> : c \in ResCodes}

AddBodies ==
    {Malformed}
    \cup {Body(TRUE, r[1], r[2], "absent", "", "absent", <<>>, "ok", SubAccount(7, "x")) :
            r \in ResFields}
    \cup {Body(TRUE, r[1], r[2], "absent", "", "absent", <<>>, k, ZeroSubAccount) :
            r \in ResFields, k \in {"absent", "bad"}}

ListBodies ==
    {Malformed}
    \cup {Body(TRUE, r[1], r[2], "absent", "", "ok", pg, "absent", ZeroSubAccount) :
            r \in ResFields, pg \in Pages}
    \cup {Body(TRUE, r[1], r[2], "absent", "", k, <<>>, "absent", ZeroSubAccount) :
            r \in ResFields, k \in {"absent", "bad"}}

DeleteBodies ==
    {Malformed}
    \cup {Body(TRUE, r[1], r[2], "ok", m, "absent", <<>>, "absent", ZeroSubAccount) :
            r \in ResFields, m \in {"", "OK", "no such subaccount"}}
    \cup {Body(TRUE, r[1], r[2], k, "", "absent", <<>>, "absent", ZeroSubAccount) :
            r \in ResFields, k \in {"absent", "bad"}}

Responses(bodies) == {Failed} \cup {Answered(b) : b \in bodies}

----------------------------------------------------------------------------
(* What an observer of the wire sees of a list response: whether the       *)
(* transport delivered it, whether it is a JSON object with resultList and *)
(* res of the expected types, its result code, the number of entries and   *)
(* whether one of them carries the ID looked for.                          *)

IsListJson(resp) ==
    /\ resp.ok
    /\ resp.body.wellFormed
    /\ resp.body.kind["resultList"] \in {"absent", "ok"}
    /\ resp.body.kind["res"] \in {"absent", "ok"}

EntriesOf(resp) ==
    IF IsListJson(resp) /\ resp.body.kind["resultList"] = "ok"
    THEN resp.body.resultList ELSE <<>>

Observed(resp, id) ==
    [ok |-> resp.ok,
     decoded |-> IsListJson(resp),
     res |-> IF IsListJson(resp) /\ resp.body.kind["res"] = "ok" THEN resp.body.res ELSE 0,
     len |-> Len(EntriesOf(resp)),
     hit |-> \E i \in 1..Len(EntriesOf(resp)) : EntriesOf(resp)[i].SubAccountID = id]

----------------------------------------------------------------------------
(* The calls *)

\* A call starts when the caller holds no unfinished call.
CanCall == pc = "idle"

Init ==
    /\ op = "none"
    /\ pc = "idle"
    /\ args = Nil
    /\ count = 0
    /\ shouldFetch = FALSE
    /\ requests = <<>>
    /\ lastResp = Nil
    /\ history = <<>>
    /\ retVal = Nil
    /\ retErr = Nil
    /\ listing = <<>>
    /\ present = FALSE

\* func (c *Client) AddSubAccount(subAccountPayload) answered by resp
AddSubAccount(p, resp) ==
    /\ CanCall
    /\ op' = "add"
    /\ args' = Some(p)
    /\ requests' = <<Request(endpointSubAccountAdd, AddValues(p))>>
    /\ lastResp' = Some(resp)
    /\ retVal' = AddSubAccountReturn(p, resp).val
    /\ retErr' = AddSubAccountReturn(p, resp).err
    /\ pc' = "returned"
    /\ count' = 0
    /\ shouldFetch' = FALSE
    /\ history' = <<>>
    /\ UNCHANGED <<listing, present>>

\* func (c *Client) DeleteSubAccount(subAccountID) answered by resp
DeleteSubAccount(id, resp) ==
    /\ CanCall
    /\ op' = "delete"
    /\ args' = Some(id)
    /\ requests' = <<Request(endpointSubAccountDelete, DeleteValues(id))>>
    /\ lastResp' = Some(resp)
    /\ retVal' = Nil
    /\ retErr' = DeleteSubAccountReturn(id, resp)
    /\ pc' = "returned"
    /\ count' = 0
    /\ shouldFetch' = FALSE
    /\ history' = <<>>
    /\ UNCHANGED <<listing, present>>

\* GetSubAccount up to its loop: count = 0, shouldFetch = true.
GetSubAccount(parentAccountID, subAccountID) ==
    /\ CanCall
    /\ op' = "get"
    /\ args' = Some([parentAccountID |-> parentAccountID, subAccountID |-> subAccountID])
    /\ count' = 0
    /\ shouldFetch' = TRUE
    /\ requests' = <<>>
    /\ lastResp' = Nil
    /\ history' = <<>>
    /\ retVal' = Nil
    /\ retErr' = Nil
    /\ pc' = "loop"
    /\ present' = \E i \in 1..Len(listing) : listing[i].SubAccountID = subAccountID
    /\ UNCHANGED listing

\* One iteration of GetSubAccount's loop, its page fetch answered by resp,
\* and the return that follows when the iteration ends the loop.
GetSubAccountPage(resp) ==
    /\ op = "get"
    /\ pc = "loop"
    /\ shouldFetch
    /\ count < MaxPages
    /\ LET a == args[1]
           got == SendListSubAccountsRequestReturn(a.parentAccountID, count, resp)
           found == FindSubAccount(got.val, a.subAccountID)
       IN /\ requests' = Append(requests,
                Request(endpointSubAccountList, ListValues(a.parentAccountID, count)))
          /\ lastResp' = Some(resp)
          /\ history' = Append(history, Observed(resp, a.subAccountID))
          /\ IF got.err # Nil
             THEN /\ retVal' = Nil
                  /\ retErr' = got.err
                  /\ pc' = "returned"
                  /\ UNCHANGED <<count, shouldFetch>>
             ELSE IF found # Nil
             THEN /\ retVal' = found
                  /\ retErr' = Nil
                  /\ pc' = "returned"
                  /\ UNCHANGED <<count, shouldFetch>>
             ELSE /\ shouldFetch' = ShouldFetch(got.val)
                  /\ count' = NextPage(count)
                  /\ retVal' = Nil
                  /\ retErr' = Nil
                  /\ pc' = IF ShouldFetch(got.val) THEN "loop" ELSE "returned"
    /\ UNCHANGED <<op, args, listing, present>>

\* The caller has taken the result: the call's locals are gone.
Return ==
    /\ pc = "returned"
    /\ op' = "none"
    /\ pc' = "idle"
    /\ args' = Nil
    /\ count' = 0
    /\ shouldFetch' = FALSE
    /\ requests' = <<>>
    /\ lastResp' = Nil
    /\ history' = <<>>
    /\ retVal' = Nil
    /\ retErr' = Nil
    /\ present' = FALSE
    /\ UNCHANGED listing

Next ==
    \/ \E p \in Payloads, resp \in Responses(AddBodies) : AddSubAccount(p, resp)
    \/ \E id \in DeleteIDs, resp \in Responses(DeleteBodies) : DeleteSubAccount(id, resp)
    \/ \E parent \in ParentIDs, id \in TargetIDs : GetSubAccount(parent, id)
    \/ \E resp \in Responses(ListBodies) : GetSubAccountPage(resp)
    \/ Return

Spec == Init /\ [][Next]_vars

----------------------------------------------------------------------------
(* The remote service serving a listing faithfully: the answer to a list   *)
(* request is res = 0 and the entries page_num * page_size + 1 ..          *)
(* (page_num + 1) * page_size of the listing as it is when the request     *)
(* arrives.                                                                *)

DigitValue(c) == CHOOSE d \in 0..9 : Digits[d + 1] = c

RECURSIVE AtoiNat(_)
AtoiNat(s) ==
    IF s = <<>> THEN 0
    ELSE AtoiNat(SubSeq(s, 1, Len(s) - 1)) * 10 + DigitValue(s[Len(s)])

\* The integer a decimal form value stands for.
Atoi(s) == IF s # <<>> /\ s[1] = "-" THEN 0 - AtoiNat(Tail(s)) ELSE AtoiNat(s)

Min(a, b) == IF a < b THEN a ELSE b

PageOf(list, pageNum, pageSize) ==
    SubSeq(list, pageNum * pageSize + 1, Min((pageNum + 1) * pageSize, Len(list)))

Served(values) ==
    Answered(Body(TRUE, "ok", 0, "absent", "", "ok",
                  PageOf(listing, Atoi(values["page_num"][1]), Atoi(values["page_size"][1])),
                  "absent", ZeroSubAccount))

\* One iteration of GetSubAccount's loop, answered by the faithful service.
GetSubAccountServed ==
    /\ op = "get"
    /\ pc = "loop"
    /\ GetSubAccountPage(Served(ListValues(args[1].parentAccountID, count)))

\* Listings of n subaccounts; the entries at the positions in hits carry id.
ListingLens == {0, 3, PAGE_SIZE, PAGE_SIZE + 1, 2 * PAGE_SIZE, 2 * PAGE_SIZE + 1}
ListingHits ==
    {<<>>, <<2, 3>>, <<11, 30>>, <<PAGE_SIZE>>, <<PAGE_SIZE + 1>>,
     <<PAGE_SIZE + 1, PAGE_SIZE + 10>>, <<2 * PAGE_SIZE>>, <<2 * PAGE_SIZE + 1>>}
ListingHitsWithin(n) == {h \in ListingHits : \A j \in 1..Len(h) : h[j] <= n}
Listings ==
    UNION {{MkPage(n, hits, 1) : hits \in ListingHitsWithin(n)} : n \in ListingLens}

InitFaithful ==
    /\ op = "none"
    /\ pc = "idle"
    /\ args = Nil
    /\ count = 0
    /\ shouldFetch = FALSE
    /\ requests = <<>>
    /\ lastResp = Nil
    /\ history = <<>>
    /\ retVal = Nil
    /\ retErr = Nil
    /\ listing \in Listings
    /\ present = FALSE

NextFaithful ==
    \/ \E parent \in ParentIDs, id \in TargetIDs : GetSubAccount(parent, id)
    \/ GetSubAccountServed
    \/ Return

\* The blocking HTTP call of a page fetch returns: the service answers.
SpecFaithful == InitFaithful /\ [][NextFaithful]_vars /\ WF_vars(GetSubAccountServed)

----------------------------------------------------------------------------
(* Other callers' AddSubAccount and DeleteSubAccount calls, seen from the   *)
(* remote listing: an accepted add puts a subaccount with a new ID at      *)
(* either end of the parent's listing, an accepted delete takes one out.   *)

\* The listing grows and shrinks by at most this many entries around a page.
MaxDrift == 1

RECURSIVE MaxID(_)
MaxID(list) ==
    IF list = <<>> THEN 0
    ELSE LET m == MaxID(Tail(list)) IN
         IF Head(list).SubAccountID > m THEN Head(list).SubAccountID ELSE m

OtherAdd(atFront) ==
    /\ Len(listing) < PAGE_SIZE + MaxDrift
    /\ MaxID(listing) < FillerID(PAGE_SIZE + MaxDrift)
    /\ LET new == SubAccount(MaxID(listing) + 1, "added") IN
       listing' = IF atFront THEN <<new>> \o listing ELSE Append(listing, new)
    /\ UNCHANGED <<op, pc, args, count, shouldFetch, requests, lastResp, history,
                   retVal, retErr, present>>

OtherDelete(i) ==
    /\ Len(listing) > PAGE_SIZE - MaxDrift
    /\ i \in 1..Len(listing)
    /\ listing' = SubSeq(listing, 1, i - 1) \o SubSeq(listing, i + 1, Len(listing))
    /\ present' = (present /\ op = "get" /\ listing[i].SubAccountID # args[1].subAccountID)
    /\ UNCHANGED <<op, pc, args, count, shouldFetch, requests, lastResp, history,
                   retVal, retErr>>

ConcurrentListings ==
    {MkPage(n, hits, id) :
        n \in {PAGE_SIZE, PAGE_SIZE + 1},
        hits \in {<<>>, <<PAGE_SIZE>>},
        id \in TargetIDs}
    \cup {MkPage(PAGE_SIZE + 1, <<PAGE_SIZE + 1>>, id) : id \in TargetIDs}

InitConcurrent ==
    /\ op = "none"
    /\ pc = "idle"
    /\ args = Nil
    /\ count = 0
    /\ shouldFetch = FALSE
    /\ requests = <<>>
    /\ lastResp = Nil
    /\ history = <<>>
    /\ retVal = Nil
    /\ retErr = Nil
    /\ listing \in ConcurrentListings
    /\ present = FALSE

NextConcurrent ==
    \/ \E parent \in ParentIDs, id \in TargetIDs : GetSubAccount(parent, id)
    \/ GetSubAccountServed
    \/ Return
    \/ \E atFront \in BOOLEAN : OtherAdd(atFront)
    \/ \E i \in {1, Len(listing)} : OtherDelete(i)

SpecConcurrent == InitConcurrent /\ [][NextConcurrent]_vars

----------------------------------------------------------------------------
(* Vocabulary of the properties.  These read the wire (requests, responses) *)
(* and the returned values; they do not use the client's own decoding.     *)

\* The body is a JSON object whose keys among `keys` have the expected types.
DecodesAs(resp, keys) ==
    /\ resp.ok
    /\ resp.body.wellFormed
    /\ \A k \in keys : resp.body.kind[k] # "bad"

\* The result code such a body carries (0 when it has no "res").
ResOf(resp) == IF resp.body.kind["res"] = "ok" THEN resp.body.res ELSE 0

KeysOf(o) ==
    CASE o = "add" -> {"sub_account", "res"}
      [] o = "get" -> {"resultList", "res"}
      [] o = "delete" -> {"res", "res_message"}

\* The error's text includes the raw body / the wrapped error e.
ErrHasBody(err, body) ==
    /\ err # Nil
    /\ \E i \in 1..Len(err[1]) : err[1][i].k = "body" /\ err[1][i].v = Some(body)
ErrWraps(err, e) ==
    /\ err # Nil
    /\ \E i \in 1..Len(err[1]) : err[1][i].k = "err" /\ err[1][i].v = e

Called(o) == op = o /\ lastResp # Nil
Target == args[1].subAccountID
PageNum(i) == Atoi(requests[i].values["page_num"][1])
Last(seq) == seq[Len(seq)]

\* The first entry of a page carrying the ID.
FirstWithID(entries, id) ==
    entries[CHOOSE i \in 1..Len(entries) :
              /\ entries[i].SubAccountID = id
              /\ \A j \in 1..(i - 1) : entries[j].SubAccountID # id]

\* A page fetch that failed: in transport or in decoding.
FetchFailed(h) == ~h.ok \/ ~h.decoded
\* No page fetched so far failed or held the target.
CleanScan == \A i \in 1..Len(history) : ~FetchFailed(history[i]) /\ ~history[i].hit

----------------------------------------------------------------------------
\* C1: in each of the three operations, a response that decodes and carries a
\* nonzero result code makes the call return no result and a non-nil error
\* whose text contains the raw body; GetSubAccount never returns (nil, nil)
\* or a subaccount from a page whose res is nonzero.
C1_NonzeroResIsAnError ==
    \A o \in {"add", "get", "delete"} :
        (Called(o) /\ DecodesAs(lastResp[1], KeysOf(o)) /\ ResOf(lastResp[1]) # 0)
            => /\ pc = "returned"
               /\ retVal = Nil
               /\ ErrHasBody(retErr, lastResp[1].body)

----------------------------------------------------------------------------
\* C2: while no fetched page holds the target (and no fetch fails),
\* GetSubAccount fetches page_num 0, 1, 2, ... in order, none skipped or
\* repeated; it fetches page k+1 only after a page k of exactly PAGE_SIZE
\* entries, and the first page of another length (an empty one included)
\* ends the scan with (nil, nil).
C2_ScanInPageOrder ==
    (op = "get" /\ CleanScan) =>
        /\ Len(history) = Len(requests)
        /\ \A i \in 1..Len(requests) :
              /\ requests[i].endpoint = endpointSubAccountList
              /\ PageNum(i) = i - 1
              /\ Atoi(requests[i].values["page_size"][1]) = PAGE_SIZE
        /\ \A i \in 1..(Len(history) - 1) : history[i].len = PAGE_SIZE
        /\ (history # <<>> /\ Last(history).len # PAGE_SIZE)
              => (pc = "returned" /\ retVal = Nil /\ retErr = Nil)
        /\ (history # <<>> /\ Last(history).len = PAGE_SIZE)
              => (pc = "loop" /\ shouldFetch /\ count = Len(history))

\* Pages of 50, 50 and 3 entries, none matching: three fetches, (nil, nil).
C2_Witness ==
    /\ op = "get" /\ pc = "returned" /\ CleanScan
    /\ Len(requests) = 3
    /\ history[1].len = PAGE_SIZE /\ history[2].len = PAGE_SIZE /\ history[3].len = 3
    /\ retVal = Nil /\ retErr = Nil

----------------------------------------------------------------------------
\* C3: a fetched page holding an entry with the target ID makes GetSubAccount
\* return the first such entry of that page with a nil error, and that page
\* is the last one fetched, full or not.
C3_MatchEndsTheScan ==
    op = "get" =>
        \A i \in 1..Len(history) :
            history[i].hit =>
                /\ i = Len(history)
                /\ Len(requests) = i
                /\ pc = "returned"
                /\ retErr = Nil
                /\ retVal = Some(FirstWithID(EntriesOf(lastResp[1]), Target))

\* A full first page with the target at index 10 (and again later): one fetch.
C3_Witness ==
    /\ op = "get" /\ pc = "returned"
    /\ Len(requests) = 1
    /\ history[1].len = PAGE_SIZE /\ history[1].hit
    /\ EntriesOf(lastResp[1])[11].SubAccountID = Target
    /\ EntriesOf(lastResp[1])[30].SubAccountID = Target
    /\ retVal = Some(EntriesOf(lastResp[1])[11])

----------------------------------------------------------------------------
\* C4: a page fetch that fails in transport or in decoding makes
\* GetSubAccount return that fetch's error and no subaccount, and it is the
\* last fetch of the call.
C4_FetchErrorEndsTheScan ==
    op = "get" =>
        \A i \in 1..Len(history) :
            FetchFailed(history[i]) =>
                /\ i = Len(history)
                /\ Len(requests) = i
                /\ pc = "returned"
                /\ retVal = Nil
                /\ retErr # Nil
                /\ ~history[i].ok => ErrWraps(retErr, lastResp[1].err)
                /\ history[i].ok => ErrHasBody(retErr, lastResp[1].body)

\* The fetch of page 1 fails in transport after a full page 0.
C4_Witness ==
    /\ op = "get" /\ pc = "returned"
    /\ Len(requests) = 2
    /\ history[1].len = PAGE_SIZE
    /\ ~history[2].ok
    /\ retVal = Nil /\ retErr # Nil

----------------------------------------------------------------------------
\* C5: AddSubAccount's form body holds sub_account_name with the payload's
\* name, and ref_id, log_level, parent_id, logs_account_id with the payload's
\* value exactly when that value is non-empty / non-zero, and nothing else.
C5_AddFormBody ==
    op = "add" =>
        /\ Len(requests) = 1
        /\ requests[1].endpoint = endpointSubAccountAdd
        /\ LET p == args[1]
               v == requests[1].values
           IN /\ DOMAIN v =
                    {"sub_account_name"}
                    \cup {k \in {"ref_id"} : p.RefID # ""}
                    \cup {k \in {"log_level"} : p.LogLevel # ""}
                    \cup {k \in {"parent_id"} : p.ParentID # 0}
                    \cup {k \in {"logs_account_id"} : p.LogsAccountID # 0}
              /\ v["sub_account_name"] = <<p.SubAccountName>>
              /\ p.RefID # "" => v["ref_id"] = <<p.RefID>>
              /\ p.LogLevel # "" => v["log_level"] = <<p.LogLevel>>
              /\ p.ParentID # 0 =>
                    Len(v["parent_id"]) = 1 /\ Atoi(v["parent_id"][1]) = p.ParentID
              /\ p.LogsAccountID # 0 =>
                    Len(v["logs_account_id"]) = 1
                    /\ Atoi(v["logs_account_id"][1]) = p.LogsAccountID

\* A payload with every optional field set: five fields (one of them negative).
C5_Witness ==
    /\ op = "add"
    /\ Cardinality(DOMAIN requests[1].values) = 5
    /\ args[1].ParentID < 0

----------------------------------------------------------------------------
----------------------------------------------------------------------------
\* C7: no operation retries: AddSubAccount and DeleteSubAccount issue exactly
\* one request, GetSubAccount at most one per page number, and the first
\* failure (transport, decode or nonzero result code) is the last request of
\* the call and is returned as its error.
C7_NoRequestAfterFailure ==
    /\ op \in {"add", "delete"} => (Len(requests) = 1 /\ pc = "returned")
    /\ op = "get" =>
          /\ \A i, j \in 1..Len(requests) : i # j => PageNum(i) # PageNum(j)
          /\ \A i \in 1..Len(history) :
                (FetchFailed(history[i]) \/ history[i].res # 0)
                    => /\ i = Len(history)
                       /\ Len(requests) = i
                       /\ pc = "returned"
                       /\ retErr # Nil

----------------------------------------------------------------------------
\* C8: DeleteSubAccount returns a nil error exactly when the transport call
\* succeeded, the body decoded and the result code is 0, whatever res_message
\* holds and whether or not it is there.
C8_DeleteNilIffResZero ==
    op = "delete" =>
        /\ pc = "returned"
        /\ retVal = Nil
        /\ (retErr = Nil) <=>
              (DecodesAs(lastResp[1], KeysOf("delete")) /\ ResOf(lastResp[1]) = 0)

\* res = 0 with a res_message that speaks of a failure: nil error.
C8_Witness ==
    /\ op = "delete"
    /\ lastResp[1].ok /\ lastResp[1].body.wellFormed
    /\ lastResp[1].body.kind["res"] = "ok" /\ lastResp[1].body.res = 0
    /\ lastResp[1].body.kind["res_message"] = "ok"
    /\ lastResp[1].body.res_message = "no such subaccount"
    /\ retErr = Nil

----------------------------------------------------------------------------
\* The positions of the listing whose entry carries the ID.
PositionsOf(list, id) == {i \in 1..Len(list) : list[i].SubAccountID = id}
FetchesNeeded(n) == (n \div PAGE_SIZE) + 1

\* What a returned call has returned, and at what cost in fetches.
C9_Returned ==
    (op = "get" /\ pc = "returned") =>
        /\ retErr = Nil
        /\ (retVal # Nil) <=> (PositionsOf(listing, Target) # {})
        /\ retVal # Nil => retVal = Some(FirstWithID(listing, Target))
        /\ retVal = Nil => Len(requests) = FetchesNeeded(Len(listing))

\* The fetches made so far; inside the loop one more is still due.
C9_Bounded ==
    op = "get" =>
        /\ Len(requests) <= FetchesNeeded(Len(listing))
        /\ pc = "loop" => Len(requests) < FetchesNeeded(Len(listing))

\* C9: against an unchanging listing of n subaccounts served faithfully in
\* pages of PAGE_SIZE, GetSubAccount terminates: inside the loop the next
\* fetch can always be made and answered, and the call makes no more than
\* n \div PAGE_SIZE + 1 of them.  It returns a nil error, and a subaccount
\* exactly when the listing holds the target ID, then the first entry in
\* list order with it; when the target is absent it has made exactly
\* n \div PAGE_SIZE + 1 fetches.
C9_FaithfulLookup ==
    /\ C9_Returned
    /\ C9_Bounded
    /\ (op = "get" /\ pc = "loop") => ENABLED GetSubAccountServed

\* A listing of 100 entries without the target: a third fetch, of an empty page.
C9_Witness ==
    /\ op = "get" /\ pc = "returned"
    /\ Len(listing) = 2 * PAGE_SIZE
    /\ PositionsOf(listing, Target) = {}
    /\ Len(requests) = 3 /\ Last(history).len = 0
    /\ retVal = Nil /\ retErr = Nil

----------------------------------------------------------------------------
\* C10: a subaccount with the target ID that is in the parent's listing
\* during the whole of a GetSubAccount call whose page fetches all succeed is
\* returned by it, also when other callers add and remove other subaccounts
\* of the parent between its page fetches.
C10_PresentIsFound ==
    (op = "get" /\ pc = "returned" /\ present /\ retErr = Nil)
        => (retVal # Nil /\ retVal[1].SubAccountID = Target)

====
